---- MODULE Spec2Model ----
(***************************************************************************)
(* Model of the one-shot channel of src/src/os_channel.rs.                 *)
(*                                                                         *)
(* Channel<T> is a slot (UnsafeCell<MaybeUninit<T>>) guarded by one        *)
(* AtomicU8 state tag.  Every atomic access of the tag is one step of the  *)
(* calling thread; the slot accesses are separate, non-atomic steps.       *)
(* The release/acquire pairing is modelled by `published` (the tag value   *)
(* heads a release sequence that carries the slot write) and `sees`        *)
(* (the slot write happens-before the thread's current point).  A slot     *)
(* read that is not ordered after the write, or that finds the slot        *)
(* uninitialised, is undefined behaviour: it yields any outcome.           *)
(*                                                                         *)
(* All atomic accesses are to the one tag, so they are totally ordered by  *)
(* its modification order; a load is modelled as reading the latest value  *)
(* of that order.  A panic ends the call (the thread, or a caller that     *)
(* catches the unwind, may go on to make further calls).                   *)
(*                                                                         *)
(* The module also models BasicChannel of src/src/basic_channel.rs (a      *)
(* VecDeque behind a Mutex, with a Condvar) and the earlier two-flag       *)
(* Channel of src/src/lib.rs (in_use, ready).  Each has its own variables  *)
(* and its own specification; a specification leaves the variables of the  *)
(* other channels unchanged.                                               *)
(***************************************************************************)
EXTENDS Integers, Naturals, Sequences, FiniteSets, TLC

\* ---------------------------------------------------------------- bounds
NumThreads == 3
NumValues == 2
MaxCalls == 4
MaxPolls == 6
MaxSends == 2
MaxRecvs == 2

Threads == 1..NumThreads
Payloads == <<"hello", "a", "b", "c">>
Values == {Payloads[i] : i \in 1..NumValues}

\* ------------------------------------------------------ program constants
EMPTY == 0
WRITING == 1
READY == 2
READING == 3

\* contents of MaybeUninit::uninit()
Uninit == "uninit"

VARIABLES
  state,      \* Channel.state : AtomicU8
  message,    \* Channel.message : the bits held by the slot
  alive,      \* the Channel has not been dropped
  published,  \* the tag's current value carries a release of the slot write
  sees,       \* sees[t] : the slot write happens-before thread t
  pc,         \* pc[t] : position of thread t inside a call
  arg,        \* arg[t] : the `message` argument owned by a running send
  ret,        \* ret[t] : outcome of the last call thread t completed
  sentVal,    \* argument of the send that won EMPTY -> WRITING
  nSendOk,    \* sends that returned
  nSendPanic, \* sends that panicked
  nRecvOk,    \* receives that returned a value (ownership handed out)
  nRecvPanic, \* receives that panicked
  destroyed,  \* assume_init_drop executions of the destructor
  calls,      \* calls started so far
  steps,      \* steps[t] : atomic steps of thread t in its current/last call
  client,     \* position of the polling consumer (end-to-end scenario)
  polls,      \* is_ready() polls made by the consumer, saturating
  \* ---- BasicChannel
  queue,      \* BasicChannel.queue : the VecDeque, front first
  mutex,      \* the thread holding the Mutex, 0 when it is free
  waiting,    \* threads blocked in item_ready.wait
  bpc,        \* bpc[t] : position of thread t inside a BasicChannel call
  bmsg,       \* bmsg[t] : the `message` argument of a running send
  bret,       \* bret[t] : the message thread t's last receive returned
  pushed,     \* the messages in the order push_back appended them
  recvd,      \* the messages in the order receive returned them
  nSends,     \* send calls started
  nRecvs,     \* receive calls started
  \* ---- the two-flag Channel of lib.rs
  in_use,       \* Channel.in_use : AtomicBool
  ready,        \* Channel.ready : AtomicBool
  tf_message,   \* Channel.message : the bits held by the slot
  tf_alive,     \* the Channel has not been dropped
  tf_published, \* `ready` carries a release of the slot write
  tf_sees,      \* tf_sees[t] : the slot write happens-before thread t
  tf_pc,        \* tf_pc[t] : position of thread t inside a call
  tf_arg,       \* tf_arg[t] : the `message` argument owned by a running send
  tf_ret,       \* tf_ret[t] : outcome of the last call thread t completed
  tf_count,     \* counters: swaps of in_use that returned false, slot
                \* writes, sends/receives returned or panicked, destructions
  tf_calls      \* calls started so far

chan == <<state, message, alive, published>>
ghost == <<sentVal, nSendOk, nSendPanic, nRecvOk, nRecvPanic, destroyed, calls>>
bcvars == <<queue, mutex, waiting, bpc, bmsg, bret, pushed, recvd, nSends,
            nRecvs>>
tfvars == <<in_use, ready, tf_message, tf_alive, tf_published, tf_sees, tf_pc,
            tf_arg, tf_ret, tf_count, tf_calls>>
vars == <<state, message, alive, published, sees, pc, arg, ret, sentVal,
          nSendOk, nSendPanic, nRecvOk, nRecvPanic, destroyed, calls,
          steps, client, polls, bcvars, tfvars>>

\* a completed call: the operation, how it ended, the value it returned and
\* the tag its atomic access of `state` read
Ret(op, out, val, tag) == [op |-> op, out |-> out, val |-> val, tag |-> tag]
NoRet == Ret("none", "none", "none", EMPTY)

\* ------------------------------------------------------- memory orderings
Acquires(ord) == ord \in {"Acquire", "AcqRel", "SeqCst"}
Releases(ord) == ord \in {"Release", "AcqRel", "SeqCst"}

\* orderings used by the code
SendStoreOrderingRelaxed == "Relaxed"
SendStoreOrdering == "Release"
ReceiveSuccessOrdering == "Acquire"

\* AtomicU8::compare_exchange(current, new, ..) succeeds iff the tag it
\* reads is `current`
compare_exchange_ignores(s, current) == TRUE
compare_exchange_ok(s, current) == s = current

\* send claims the slot when its compare_exchange(EMPTY, WRITING) succeeds
send_claim_unchecked(s) == TRUE
send_claim_racy(s) == s \in {EMPTY, WRITING}
send_can_claim(s) == compare_exchange_ok(s, EMPTY)

\* receive claims the slot when its compare_exchange(READY, READING) succeeds
receive_claim_not_empty(s) == s # EMPTY
receive_claim_racy(s) == s \in {READY, READING}
receive_claim_past_empty(s) == s \in {WRITING, READY}
receive_can_claim(s) == compare_exchange_ok(s, READY)

\* is_ready: load == READY
is_ready_not_empty(s) == s # EMPTY
is_ready_result(s) == s = READY

\* drop: *self.state.get_mut() == READY
drop_needed_not_empty(s) == s # EMPTY
drop_needed(s) == s = READY

\* the tag send stores once the slot is written
send_published_state == READY

\* assume_init_read by thread t: the bits of the slot when the read is
\* ordered after an initialising write, anything otherwise
assume_init_read(t) ==
  IF sees[t] /\ message # Uninit THEN {message} ELSE Values \cup {Uninit}

BoolStr(b) == IF b THEN "true" ELSE "false"

\* ------------------------------------------------------------------- new
new ==
  /\ state = EMPTY
  /\ message = Uninit
  /\ alive = TRUE
  /\ published = FALSE
  /\ sees = [t \in Threads |-> FALSE]
  /\ pc = [t \in Threads |-> "idle"]
  /\ arg = [t \in Threads |-> "none"]
  /\ ret = [t \in Threads |-> NoRet]
  /\ sentVal = "none"
  /\ nSendOk = 0
  /\ nSendPanic = 0
  /\ nRecvOk = 0
  /\ nRecvPanic = 0
  /\ destroyed = 0
  /\ calls = 0
  /\ steps = [t \in Threads |-> 0]
  /\ polls = 0

\* BasicChannel::new
bc_new ==
  /\ queue = <<>>
  /\ mutex = 0
  /\ waiting = {}
  /\ bpc = [t \in Threads |-> "idle"]
  /\ bmsg = [t \in Threads |-> 0]
  /\ bret = [t \in Threads |-> 0]
  /\ pushed = <<>>
  /\ recvd = <<>>
  /\ nSends = 0
  /\ nRecvs = 0

\* Channel::new of lib.rs
tf_new ==
  /\ in_use = FALSE
  /\ ready = FALSE
  /\ tf_message = Uninit
  /\ tf_alive = TRUE
  /\ tf_published = FALSE
  /\ tf_sees = [t \in Threads |-> FALSE]
  /\ tf_pc = [t \in Threads |-> "idle"]
  /\ tf_arg = [t \in Threads |-> "none"]
  /\ tf_ret = [t \in Threads |-> NoRet]
  /\ tf_count = [sends |-> 0, swapFalse |-> 0, writes |-> 0, sendOk |-> 0,
                 sendPanic |-> 0, recvOk |-> 0, recvPanic |-> 0,
                 destroyed |-> 0]
  /\ tf_calls = 0

\* a call may start on a live channel, on a thread that is not inside a call
CanCall(t) == alive /\ pc[t] = "idle"

\* the callers' budget of calls (the counter saturates at MaxCalls)
Budget == calls < MaxCalls
CountCall == calls' = IF calls < MaxCalls THEN calls + 1 ELSE calls

\* thread t takes the first atomic step of a call / one more step of it
FirstStep(t) == steps' = [steps EXCEPT ![t] = 1]
OneMoreStep(t) == steps' = [steps EXCEPT ![t] = steps[t] + 1]

\* ------------------------------------------------------------------ send
\* (mutant) a swap in place of the compare_exchange: the failing send has
\* already overwritten the tag
send_panic_swapped(t) ==
  /\ pc' = [pc EXCEPT ![t] = "idle"]
  /\ arg' = [arg EXCEPT ![t] = "none"]
  /\ ret' = [ret EXCEPT ![t] = Ret("send", "panic", "none", state)]
  /\ nSendPanic' = nSendPanic + 1
  /\ state' = WRITING
  /\ UNCHANGED sentVal

\* the panic branch of send: the argument is dropped by unwinding
send_panic(t) ==
  /\ pc' = [pc EXCEPT ![t] = "idle"]
  /\ arg' = [arg EXCEPT ![t] = "none"]
  /\ ret' = [ret EXCEPT ![t] = Ret("send", "panic", "none", state)]
  /\ nSendPanic' = nSendPanic + 1
  /\ UNCHANGED <<state, sentVal>>

\* send, first step: compare_exchange(EMPTY, WRITING, Relaxed, Relaxed)
send_compare_exchange(t, v) ==
  /\ CanCall(t)
  /\ CountCall
  /\ FirstStep(t)
  /\ IF send_can_claim(state)
       THEN /\ state' = WRITING
            /\ pc' = [pc EXCEPT ![t] = "send_write"]
            /\ arg' = [arg EXCEPT ![t] = v]
            /\ sentVal' = v
            /\ UNCHANGED <<ret, nSendPanic>>
       ELSE send_panic(t)
  /\ UNCHANGED <<message, alive, published, sees, nSendOk, nRecvOk,
                 nRecvPanic, destroyed>>

\* send, second step: (*self.message.get()).write(message)
send_write(t) ==
  /\ pc[t] = "send_write"
  /\ OneMoreStep(t)
  /\ message' = arg[t]
  /\ arg' = [arg EXCEPT ![t] = "none"]
  /\ sees' = [u \in Threads |-> u = t]
  /\ published' = FALSE
  /\ pc' = [pc EXCEPT ![t] = "send_store"]
  /\ UNCHANGED <<state, alive, ret, ghost>>

\* (mutant) send returns without storing READY
send_store_missing(t) ==
  /\ pc[t] = "send_store"
  /\ OneMoreStep(t)
  /\ pc' = [pc EXCEPT ![t] = "idle"]
  /\ ret' = [ret EXCEPT ![t] = Ret("send", "ok", "none", EMPTY)]
  /\ nSendOk' = nSendOk + 1
  /\ UNCHANGED <<state, published, message, alive, sees, arg, sentVal,
                 nSendPanic, nRecvOk, nRecvPanic, destroyed, calls>>

\* send, third step: self.state.store(READY, Release), then return
send_store(t) ==
  /\ pc[t] = "send_store"
  /\ OneMoreStep(t)
  /\ state' = send_published_state
  /\ published' = (sees[t] /\ Releases(SendStoreOrdering))
  /\ pc' = [pc EXCEPT ![t] = "idle"]
  /\ ret' = [ret EXCEPT ![t] = Ret("send", "ok", "none", EMPTY)]
  /\ nSendOk' = nSendOk + 1
  /\ UNCHANGED <<message, alive, sees, arg, sentVal, nSendPanic, nRecvOk,
                 nRecvPanic, destroyed, calls>>

\* -------------------------------------------------------------- is_ready
\* (mutant) a probe that consumes the readiness it observes
is_ready_swap(t) ==
  /\ CanCall(t)
  /\ CountCall
  /\ FirstStep(t)
  /\ ret' = [ret EXCEPT ![t] =
               Ret("is_ready", "ok", BoolStr(is_ready_result(state)), state)]
  /\ state' = IF state = READY THEN READING ELSE state
  /\ UNCHANGED <<message, alive, published, sees, pc, arg, sentVal, nSendOk,
                 nSendPanic, nRecvOk, nRecvPanic, destroyed>>

\* self.state.load(Relaxed) == READY
is_ready(t) ==
  /\ CanCall(t)
  /\ CountCall
  /\ FirstStep(t)
  /\ ret' = [ret EXCEPT ![t] =
               Ret("is_ready", "ok", BoolStr(is_ready_result(state)), state)]
  /\ UNCHANGED <<chan, sees, pc, arg, sentVal, nSendOk, nSendPanic, nRecvOk,
                 nRecvPanic, destroyed>>

\* --------------------------------------------------------------- receive
\* the panic branch of receive
receive_panic(t) ==
  /\ pc' = [pc EXCEPT ![t] = "idle"]
  /\ ret' = [ret EXCEPT ![t] = Ret("receive", "panic", "none", state)]
  /\ nRecvPanic' = nRecvPanic + 1
  /\ UNCHANGED <<state, sees>>

\* (mutant) a receive that waits for READY instead of failing
receive_blocking(t) ==
  /\ CanCall(t)
  /\ state = READY
  /\ CountCall
  /\ FirstStep(t)
  /\ state' = READING
  /\ sees' = [sees EXCEPT ![t] = sees[t] \/ published]
  /\ pc' = [pc EXCEPT ![t] = "receive_read"]
  /\ UNCHANGED <<message, alive, published, arg, ret, sentVal, nSendOk,
                 nSendPanic, nRecvOk, nRecvPanic, destroyed>>

\* receive, first step: compare_exchange(READY, READING, Acquire, Relaxed)
receive_compare_exchange(t) ==
  /\ CanCall(t)
  /\ CountCall
  /\ FirstStep(t)
  /\ IF receive_can_claim(state)
       THEN /\ state' = READING
            /\ sees' = [sees EXCEPT ![t] =
                          sees[t] \/ (published /\ Acquires(ReceiveSuccessOrdering))]
            /\ pc' = [pc EXCEPT ![t] = "receive_read"]
            /\ UNCHANGED <<ret, nRecvPanic>>
       ELSE receive_panic(t)
  /\ UNCHANGED <<message, alive, published, arg, sentVal, nSendOk, nSendPanic,
                 nRecvOk, destroyed>>

\* receive, second step: (*self.message.get()).assume_init_read(), return it
receive_read(t) ==
  /\ pc[t] = "receive_read"
  /\ OneMoreStep(t)
  /\ \E v \in assume_init_read(t) :
       ret' = [ret EXCEPT ![t] = Ret("receive", "ok", v, READY)]
  /\ pc' = [pc EXCEPT ![t] = "idle"]
  /\ nRecvOk' = nRecvOk + 1
  /\ UNCHANGED <<chan, sees, arg, sentVal, nSendOk, nSendPanic, nRecvPanic,
                 destroyed, calls>>

\* ------------------------------------------------------------------ drop
\* Drop for Channel: needs &mut self, so no call is in progress
drop ==
  /\ alive
  /\ \A t \in Threads : pc[t] = "idle"
  /\ alive' = FALSE
  /\ destroyed' = IF drop_needed(state) THEN destroyed + 1 ELSE destroyed
  /\ UNCHANGED <<state, message, published, sees, pc, arg, ret, sentVal,
                 nSendOk, nSendPanic, nRecvOk, nRecvPanic, calls, steps>>

\* ------------------------------------------------- any caller, any thread
\* the other channels of the module are not touched
Elsewhere == UNCHANGED <<bcvars, tfvars>>

Init == new /\ client = "free" /\ bc_new /\ tf_new

Caller == UNCHANGED <<client, polls>> /\ Elsewhere

Send == \E t \in Threads, v \in Values :
  Budget /\ send_compare_exchange(t, v) /\ Caller
SendWrite == \E t \in Threads : send_write(t) /\ Caller
SendStore == \E t \in Threads : send_store(t) /\ Caller
IsReady == \E t \in Threads : Budget /\ is_ready(t) /\ Caller
Receive == \E t \in Threads : Budget /\ receive_compare_exchange(t) /\ Caller
ReceiveRead == \E t \in Threads : receive_read(t) /\ Caller
Drop == drop /\ Caller

\* the steps thread t takes inside a call it has started
Inside(t) == send_write(t) \/ send_store(t) \/ receive_read(t)

Next ==
  \/ Send
  \/ SendWrite
  \/ SendStore
  \/ IsReady
  \/ Receive
  \/ ReceiveRead
  \/ Drop

Spec == Init /\ [][Next]_vars

\* ------------------------------------------------- end-to-end scenario
\* Thread A constructs the channel and is its only consumer: it polls
\* is_ready() until it returns true, calls receive(), probes once more and
\* drops the channel.  Thread B is the only producer: it calls send once.
ThreadA == 1
ThreadB == 2

InitE2E == new /\ client = "poll" /\ bc_new /\ tf_new

CountPoll == polls' = IF polls < MaxPolls THEN polls + 1 ELSE polls

ProducerCall ==
  /\ ret[ThreadB] = NoRet
  /\ \E v \in Values : send_compare_exchange(ThreadB, v)
  /\ UNCHANGED <<client, polls>>
  /\ Elsewhere

ProducerStep ==
  /\ (send_write(ThreadB) \/ send_store(ThreadB))
  /\ UNCHANGED <<client, polls>>
  /\ Elsewhere

ConsumerPoll ==
  /\ client = "poll"
  /\ is_ready(ThreadA)
  /\ client' = IF ret'[ThreadA].val = "true" THEN "receive" ELSE "poll"
  /\ CountPoll
  /\ Elsewhere

ConsumerReceive ==
  /\ client = "receive"
  /\ receive_compare_exchange(ThreadA)
  /\ client' = IF pc'[ThreadA] = "receive_read" THEN "probe" ELSE "panicked"
  /\ UNCHANGED polls
  /\ Elsewhere

ConsumerRead ==
  /\ receive_read(ThreadA)
  /\ UNCHANGED <<client, polls>>
  /\ Elsewhere

ConsumerProbe ==
  /\ client = "probe"
  /\ is_ready(ThreadA)
  /\ client' = "done"
  /\ UNCHANGED polls
  /\ Elsewhere

ConsumerDrop ==
  /\ client = "done"
  /\ drop
  /\ UNCHANGED <<client, polls>>
  /\ Elsewhere

Producer == ProducerCall \/ ProducerStep
Consumer ==
  ConsumerPoll \/ ConsumerReceive \/ ConsumerRead \/ ConsumerProbe \/ ConsumerDrop

NextE2E == Producer \/ Consumer

\* both threads are scheduled fairly
SpecE2E ==
  InitE2E /\ [][NextE2E]_vars /\ WF_vars(Producer) /\ WF_vars(Consumer)

\* ----------------------------------------------------------- BasicChannel
osvars == <<state, message, alive, published, sees, pc, arg, ret, sentVal,
            nSendOk, nSendPanic, nRecvOk, nRecvPanic, destroyed, calls,
            steps, client, polls, tfvars>>

\* VecDeque::push_back and VecDeque::pop_front
push_back(q, m) == Append(q, m)
pop_back(q) == [message |-> q[Len(q)], rest |-> SubSeq(q, 1, Len(q) - 1)]
pop_front(q) == [message |-> Head(q), rest |-> Tail(q)]

\* send is called with a fresh message; it goes for the mutex
bc_send_call(t) ==
  /\ bpc[t] = "idle"
  /\ nSends < MaxSends
  /\ nSends' = nSends + 1
  /\ bmsg' = [bmsg EXCEPT ![t] = nSends + 1]
  /\ bpc' = [bpc EXCEPT ![t] = "send_lock"]
  /\ UNCHANGED <<queue, mutex, waiting, bret, pushed, recvd, nRecvs>>

\* send: self.queue.lock().unwrap()
bc_send_lock(t) ==
  /\ bpc[t] = "send_lock"
  /\ mutex = 0
  /\ mutex' = t
  /\ bpc' = [bpc EXCEPT ![t] = "send_push"]
  /\ UNCHANGED <<queue, waiting, bmsg, bret, pushed, recvd, nSends, nRecvs>>

\* send: .push_back(message); the guard is dropped at the end of the statement
bc_send_push(t) ==
  /\ bpc[t] = "send_push"
  /\ mutex = t
  /\ queue' = push_back(queue, bmsg[t])
  /\ pushed' = Append(pushed, bmsg[t])
  /\ mutex' = 0
  /\ bmsg' = [bmsg EXCEPT ![t] = 0]
  /\ bpc' = [bpc EXCEPT ![t] = "send_notify"]
  /\ UNCHANGED <<waiting, bret, recvd, nSends, nRecvs>>

\* (mutant) send returns without notifying
bc_send_no_notify(t) ==
  /\ bpc[t] = "send_notify"
  /\ bpc' = [bpc EXCEPT ![t] = "idle"]
  /\ UNCHANGED <<queue, mutex, waiting, bmsg, bret, pushed, recvd, nSends, nRecvs>>

\* send: self.item_ready.notify_one() wakes one blocked thread, if any
bc_send_notify(t) ==
  /\ bpc[t] = "send_notify"
  /\ IF waiting = {}
       THEN /\ bpc' = [bpc EXCEPT ![t] = "idle"]
            /\ UNCHANGED waiting
       ELSE \E w \in waiting :
              /\ waiting' = waiting \ {w}
              /\ bpc' = [bpc EXCEPT ![t] = "idle", ![w] = "recv_lock"]
  /\ UNCHANGED <<queue, mutex, bmsg, bret, pushed, recvd, nSends, nRecvs>>

\* receive is called; it goes for the mutex
bc_recv_call(t) ==
  /\ bpc[t] = "idle"
  /\ nRecvs < MaxRecvs
  /\ nRecvs' = nRecvs + 1
  /\ bpc' = [bpc EXCEPT ![t] = "recv_lock"]
  /\ UNCHANGED <<queue, mutex, waiting, bmsg, bret, pushed, recvd, nSends>>

\* receive: self.queue.lock().unwrap(), and the re-lock when wait returns
bc_recv_lock(t) ==
  /\ bpc[t] = "recv_lock"
  /\ mutex = 0
  /\ mutex' = t
  /\ bpc' = [bpc EXCEPT ![t] = "recv_pop"]
  /\ UNCHANGED <<queue, waiting, bmsg, bret, pushed, recvd, nSends, nRecvs>>

\* receive, loop body: pop_front and return the message (dropping the
\* guard), or item_ready.wait(b): release the mutex and block
bc_recv_pop(t) ==
  /\ bpc[t] = "recv_pop"
  /\ mutex = t
  /\ mutex' = 0
  /\ IF queue # <<>>
       THEN /\ queue' = pop_front(queue).rest
            /\ bret' = [bret EXCEPT ![t] = pop_front(queue).message]
            /\ recvd' = Append(recvd, pop_front(queue).message)
            /\ bpc' = [bpc EXCEPT ![t] = "idle"]
            /\ UNCHANGED waiting
       ELSE /\ waiting' = waiting \cup {t}
            /\ bpc' = [bpc EXCEPT ![t] = "recv_wait"]
            /\ UNCHANGED <<queue, bret, recvd>>
  /\ UNCHANGED <<bmsg, pushed, nSends, nRecvs>>

\* Condvar::wait may return without a notification (spurious wakeup)
bc_spurious_wakeup(t) ==
  /\ bpc[t] = "recv_wait"
  /\ t \in waiting
  /\ waiting' = waiting \ {t}
  /\ bpc' = [bpc EXCEPT ![t] = "recv_lock"]
  /\ UNCHANGED <<queue, mutex, bmsg, bret, pushed, recvd, nSends, nRecvs>>

BCSendCall == \E t \in Threads : bc_send_call(t) /\ UNCHANGED osvars
BCSendLock == \E t \in Threads : bc_send_lock(t) /\ UNCHANGED osvars
BCSendPush == \E t \in Threads : bc_send_push(t) /\ UNCHANGED osvars
BCSendNotify == \E t \in Threads : bc_send_notify(t) /\ UNCHANGED osvars
BCRecvCall == \E t \in Threads : bc_recv_call(t) /\ UNCHANGED osvars
BCRecvLock == \E t \in Threads : bc_recv_lock(t) /\ UNCHANGED osvars
BCRecvPop == \E t \in Threads : bc_recv_pop(t) /\ UNCHANGED osvars
BCSpurious == \E t \in Threads : bc_spurious_wakeup(t) /\ UNCHANGED osvars

\* the steps a thread takes once it is inside a BasicChannel call
BCRun(t) ==
  (bc_send_lock(t) \/ bc_send_push(t) \/ bc_send_notify(t)
     \/ bc_recv_lock(t) \/ bc_recv_pop(t)) /\ UNCHANGED osvars

NextBC ==
  \/ BCSendCall
  \/ BCSendLock
  \/ BCSendPush
  \/ BCSendNotify
  \/ BCRecvCall
  \/ BCRecvLock
  \/ BCRecvPop
  \/ BCSpurious

\* every thread inside a call is scheduled fairly; callers need not call,
\* and spurious wakeups need not happen
SpecBC == Init /\ [][NextBC]_vars /\ \A t \in Threads : WF_vars(BCRun(t))

\* ------------------------------------------- the two-flag Channel (lib.rs)
TfCanCall(t) == tf_alive /\ tf_pc[t] = "idle"
TfBudget == tf_calls < MaxCalls
TfCountCall == tf_calls' = IF tf_calls < MaxCalls THEN tf_calls + 1 ELSE tf_calls
TfBump(f) == tf_count' = [tf_count EXCEPT ![f] = tf_count[f] + 1]

\* send panics when in_use.swap(true) returns true
tf_send_rejected_never(old) == FALSE
tf_send_rejected(old) == old

\* receive panics when ready.swap(false) returns false
tf_receive_rejected(old) == ~old

\* drop: *self.ready.get_mut()
tf_drop_needed_in_use == in_use
tf_drop_needed == ready

tf_assume_init_read(t) ==
  IF tf_sees[t] /\ tf_message # Uninit THEN {tf_message}
  ELSE Values \cup {Uninit}

\* send, first step: in_use.swap(true, Relaxed); panic if it was set
tf_send_swap(t, v) ==
  /\ TfCanCall(t)
  /\ TfCountCall
  /\ in_use' = TRUE
  /\ IF tf_send_rejected(in_use)
       THEN /\ tf_ret' = [tf_ret EXCEPT ![t] = Ret("send", "panic", "none", EMPTY)]
            /\ tf_count' = [tf_count EXCEPT
                              !.sends = @ + 1,
                              !.sendPanic = @ + 1,
                              !.swapFalse = IF in_use THEN @ ELSE @ + 1]
            /\ UNCHANGED <<tf_pc, tf_arg>>
       ELSE /\ tf_pc' = [tf_pc EXCEPT ![t] = "send_write"]
            /\ tf_arg' = [tf_arg EXCEPT ![t] = v]
            /\ tf_count' = [tf_count EXCEPT
                              !.sends = @ + 1,
                              !.swapFalse = IF in_use THEN @ ELSE @ + 1]
            /\ UNCHANGED tf_ret
  /\ UNCHANGED <<ready, tf_message, tf_alive, tf_published, tf_sees>>

\* send, second step: (*self.message.get()).write(message)
tf_send_write(t) ==
  /\ tf_pc[t] = "send_write"
  /\ tf_message' = tf_arg[t]
  /\ tf_arg' = [tf_arg EXCEPT ![t] = "none"]
  /\ tf_sees' = [u \in Threads |-> u = t]
  /\ tf_published' = FALSE
  /\ tf_pc' = [tf_pc EXCEPT ![t] = "send_store"]
  /\ TfBump("writes")
  /\ UNCHANGED <<in_use, ready, tf_alive, tf_ret, tf_calls>>

\* send, third step: self.ready.store(true, Release), then return
tf_send_store(t) ==
  /\ tf_pc[t] = "send_store"
  /\ ready' = TRUE
  /\ tf_published' = (tf_sees[t] /\ Releases("Release"))
  /\ tf_pc' = [tf_pc EXCEPT ![t] = "idle"]
  /\ tf_ret' = [tf_ret EXCEPT ![t] = Ret("send", "ok", "none", EMPTY)]
  /\ TfBump("sendOk")
  /\ UNCHANGED <<in_use, tf_message, tf_alive, tf_sees, tf_arg, tf_calls>>

\* is_ready: self.ready.load(Relaxed)
tf_is_ready(t) ==
  /\ TfCanCall(t)
  /\ TfCountCall
  /\ tf_ret' = [tf_ret EXCEPT ![t] = Ret("is_ready", "ok", BoolStr(ready), EMPTY)]
  /\ UNCHANGED <<in_use, ready, tf_message, tf_alive, tf_published, tf_sees,
                 tf_pc, tf_arg, tf_count>>

\* receive, first step: ready.swap(false, Acquire); panic if it was clear
tf_receive_swap(t) ==
  /\ TfCanCall(t)
  /\ TfCountCall
  /\ ready' = FALSE
  /\ IF tf_receive_rejected(ready)
       THEN /\ tf_ret' = [tf_ret EXCEPT ![t] = Ret("receive", "panic", "none", EMPTY)]
            /\ TfBump("recvPanic")
            /\ UNCHANGED <<tf_pc, tf_sees>>
       ELSE /\ tf_pc' = [tf_pc EXCEPT ![t] = "receive_read"]
            /\ tf_sees' = [tf_sees EXCEPT ![t] =
                             tf_sees[t] \/ (tf_published /\ Acquires("Acquire"))]
            /\ UNCHANGED <<tf_ret, tf_count>>
  /\ UNCHANGED <<in_use, tf_message, tf_alive, tf_published, tf_arg>>

\* receive, second step: (*self.message.get()).assume_init_read()
tf_receive_read(t) ==
  /\ tf_pc[t] = "receive_read"
  /\ \E v \in tf_assume_init_read(t) :
       tf_ret' = [tf_ret EXCEPT ![t] = Ret("receive", "ok", v, EMPTY)]
  /\ tf_pc' = [tf_pc EXCEPT ![t] = "idle"]
  /\ TfBump("recvOk")
  /\ UNCHANGED <<in_use, ready, tf_message, tf_alive, tf_published, tf_sees,
                 tf_arg, tf_calls>>

\* Drop for Channel (lib.rs): needs &mut self, so no call is in progress
tf_drop ==
  /\ tf_alive
  /\ \A t \in Threads : tf_pc[t] = "idle"
  /\ tf_alive' = FALSE
  /\ tf_count' = [tf_count EXCEPT
                    !.destroyed = IF tf_drop_needed THEN @ + 1 ELSE @]
  /\ UNCHANGED <<in_use, ready, tf_message, tf_published, tf_sees, tf_pc,
                 tf_arg, tf_ret, tf_calls>>

\* the two-flag channel alone
fsvars == <<state, message, alive, published, sees, pc, arg, ret, sentVal,
            nSendOk, nSendPanic, nRecvOk, nRecvPanic, destroyed, calls,
            steps, client, polls, bcvars>>

TfSend == \E t \in Threads, v \in Values :
  TfBudget /\ tf_send_swap(t, v) /\ UNCHANGED fsvars
TfSendWrite == \E t \in Threads : tf_send_write(t) /\ UNCHANGED fsvars
TfSendStore == \E t \in Threads : tf_send_store(t) /\ UNCHANGED fsvars
TfIsReady == \E t \in Threads : TfBudget /\ tf_is_ready(t) /\ UNCHANGED fsvars
TfReceive == \E t \in Threads : TfBudget /\ tf_receive_swap(t) /\ UNCHANGED fsvars
TfReceiveRead == \E t \in Threads : tf_receive_read(t) /\ UNCHANGED fsvars
TfDrop == tf_drop /\ UNCHANGED fsvars

NextTF ==
  \/ TfSend
  \/ TfSendWrite
  \/ TfSendStore
  \/ TfIsReady
  \/ TfReceive
  \/ TfReceiveRead
  \/ TfDrop

SpecTF == Init /\ [][NextTF]_vars

\* the two channels side by side: every step is the same step of the same
\* thread, with the same argument, on both
Beside == UNCHANGED <<client, polls, bcvars>>

PairSend == \E t \in Threads, v \in Values :
  Budget /\ send_compare_exchange(t, v) /\ tf_send_swap(t, v) /\ Beside
PairSendWrite == \E t \in Threads : send_write(t) /\ tf_send_write(t) /\ Beside
PairSendStore == \E t \in Threads : send_store(t) /\ tf_send_store(t) /\ Beside
PairIsReady == \E t \in Threads :
  Budget /\ is_ready(t) /\ tf_is_ready(t) /\ Beside
PairReceive == \E t \in Threads :
  Budget /\ receive_compare_exchange(t) /\ tf_receive_swap(t) /\ Beside
PairReceiveRead == \E t \in Threads :
  receive_read(t) /\ tf_receive_read(t) /\ Beside
PairDrop == drop /\ tf_drop /\ Beside

NextPair ==
  \/ PairSend
  \/ PairSendWrite
  \/ PairSendStore
  \/ PairIsReady
  \/ PairReceive
  \/ PairReceiveRead
  \/ PairDrop

SpecPair == Init /\ [][NextPair]_vars

TypeOK ==
  /\ state \in {EMPTY, WRITING, READY, READING}
  /\ message \in Values \cup {Uninit}
  /\ alive \in BOOLEAN
  /\ pc \in [Threads -> {"idle", "send_write", "send_store", "receive_read"}]

\* ---------------------------------------------------------------- claims
\* a step in which thread t calls send / receive / is_ready
CallsSend(t) == \E v \in Values : Budget /\ send_compare_exchange(t, v) /\ Caller
CallsReceive(t) == Budget /\ receive_compare_exchange(t) /\ Caller
CallsIsReady(t) == Budget /\ is_ready(t) /\ Caller

Senders == {t \in Threads : pc[t] \in {"send_write", "send_store"}}
Readers == {t \in Threads : pc[t] = "receive_read"}
Returned(t, op) == ret[t].op = op /\ ret[t].out = "ok"
Panicked(t, op) == ret[t].op = op /\ ret[t].out = "panic"
OnlyThread(t) == \A u \in Threads \ {t} : ret[u] = NoRet /\ pc[u] = "idle"

\* C1: on a fresh channel a receive() that follows one completed send(v)
\* succeeds and returns exactly v, and the value is handed out once.
C1_SendThenReceive ==
  /\ [][\A t \in Threads :
          (CallsReceive(t) /\ nSendOk = 1 /\ nRecvOk = 0 /\ Readers = {})
            => pc'[t] = "receive_read"]_vars
  /\ [](\A t \in Threads : Returned(t, "receive") => ret[t].val = sentVal)
  /\ [](nRecvOk <= 1 /\ (sentVal # "none" => sentVal \in Values))

C1_Witness ==
  \E t \in Threads :
    /\ OnlyThread(t) /\ calls = 2 /\ nSendOk = 1
    /\ Returned(t, "receive") /\ ret[t].val = "hello"

\* C2: is_ready() is false right after construction, is true only after a
\* completed send (never in EMPTY or WRITING), and is false from a completed
\* receive on.
C2_IsReady ==
  [][\A t \in Threads :
       CallsIsReady(t) =>
         /\ (calls = 0 => ret'[t].val = "false")
         /\ (ret'[t].val = "true" =>
               nSendOk >= 1 /\ state \notin {EMPTY, WRITING})
         /\ (nRecvOk >= 1 => ret'[t].val = "false")]_vars

C2_Witness ==
  \E t, u \in Threads :
    /\ Returned(t, "is_ready") /\ ret[t].val = "false" /\ ret[t].tag = READING
    /\ Returned(u, "is_ready") /\ ret[u].val = "true"
    /\ nRecvOk = 1

\* C3: a send by a thread whose previous call was a completed send panics
\* and changes nothing: tag and slot are as the first send left them (READY
\* and the first value while nothing was received), and a receive after the
\* failed send returns the first value.
C3_SecondSend ==
  /\ [][\A t \in Threads :
          (CallsSend(t) /\ Returned(t, "send")) =>
            /\ ret'[t].op = "send" /\ ret'[t].out = "panic"
            /\ pc'[t] = "idle"
            /\ state' = state /\ message' = message /\ sentVal' = sentVal
            /\ (nRecvOk = 0 /\ Readers = {} =>
                  state' = READY /\ message' = sentVal)]_vars
  /\ [][\A t \in Threads :
          (receive_read(t) /\ nSendPanic >= 1) => ret'[t].val = sentVal]_vars

C3_Witness ==
  \E t \in Threads :
    /\ OnlyThread(t) /\ calls = 3 /\ nSendOk = 1 /\ nSendPanic = 1
    /\ Returned(t, "receive") /\ ret[t].val = sentVal

\* C4: receive() panics when no send has completed and when a receive has
\* already succeeded; it proceeds to read the slot only when its
\* compare-and-swap finds READY.
C4_ReceivePanics ==
  [][\A t \in Threads :
       CallsReceive(t) =>
         /\ (nSendOk = 0 => ret'[t].op = "receive" /\ ret'[t].out = "panic")
         /\ (nRecvOk >= 1 => ret'[t].op = "receive" /\ ret'[t].out = "panic")
         /\ (pc'[t] = "receive_read" <=> state = READY)
         /\ (pc'[t] # "receive_read" =>
               pc'[t] = "idle" /\ ret'[t].out = "panic" /\ state' = state)]_vars

C4_Witness ==
  \E t, u \in Threads :
    /\ Panicked(t, "receive") /\ ret[t].tag = EMPTY
    /\ Panicked(u, "receive") /\ ret[u].tag = READING
    /\ nSendOk = 1 /\ nRecvOk = 1

\* C5: of the sends called on one channel exactly one wins EMPTY -> WRITING
\* and returns, every other send panics, and the value a receive returns is
\* the argument of the send that won.
C5_OneSendWins ==
  /\ Cardinality(Senders) + nSendOk <= 1
  /\ (nSendPanic >= 1 => Cardinality(Senders) + nSendOk = 1)
  /\ (Senders # {} => sentVal \in Values /\ state = WRITING)
  /\ (\A t \in Threads : pc[t] = "send_write" => arg[t] = sentVal)
  /\ (\A t \in Threads : pc[t] = "send_store" => message = sentVal)
  /\ (\A t \in Threads : Returned(t, "receive") =>
        ret[t].val = sentVal /\ nSendOk = 1)

C5_Witness ==
  \E t, u, w \in Threads :
    /\ Returned(t, "send")
    /\ Panicked(u, "send") /\ ret[u].tag = WRITING
    /\ Returned(w, "receive") /\ ret[w].val = sentVal
    /\ nSendOk = 1 /\ nSendPanic = 1

\* C6: of the receives called on a channel in READY at most one wins
\* READY -> READING and obtains the value; every other receive panics, so
\* the value is never handed to two callers.
C6_OneReceiveWins ==
  /\ Cardinality(Readers) + nRecvOk <= 1
  /\ Cardinality({t \in Threads : Returned(t, "receive")}) <= 1
  /\ (Readers # {} \/ nRecvOk = 1 => state = READING)
  /\ (\A t \in Threads :
        Panicked(t, "receive") => ret[t].tag \in {EMPTY, WRITING, READING})

C6_Witness ==
  \E t, u \in Threads :
    /\ pc[t] = "receive_read"
    /\ Panicked(u, "receive") /\ ret[u].tag = READING
    /\ nRecvPanic = 1 /\ calls = 3

\* C7: a receive() called while a send is in progress (tag WRITING) panics
\* without touching the slot, and a receive reads the slot only after the
\* sender has written it and stored READY, ordered after that write.
C7_ReceiveAfterSend ==
  /\ [][\A t \in Threads :
          (CallsReceive(t) /\ Senders # {}) =>
            /\ ret'[t].op = "receive" /\ ret'[t].out = "panic"
            /\ pc'[t] = "idle"
            /\ message' = message /\ state' = state]_vars
  /\ [](\A t \in Threads :
          (pc[t] = "receive_read" \/ Returned(t, "receive")) =>
            /\ nSendOk = 1 /\ Senders = {}
            /\ message = sentVal /\ message # Uninit
            /\ sees[t])

C7_Witness ==
  \E t, u \in Threads :
    /\ Panicked(t, "receive") /\ ret[t].tag = WRITING
    /\ Returned(u, "receive") /\ ret[u].val = sentVal

\* C8: the destructor destroys the stored value exactly once when a send
\* completed and nothing was received, and destroys nothing otherwise: once
\* the channel is dropped every sent value was either returned by one
\* receive or destroyed, never both and never neither.
C8_DropOnce ==
  /\ (alive => destroyed = 0)
  /\ (~alive =>
        /\ (nSendOk = 1 /\ nRecvOk = 0 => destroyed = 1)
        /\ (nSendOk = 0 \/ nRecvOk >= 1 => destroyed = 0)
        /\ nRecvOk + destroyed = nSendOk
        /\ Senders = {} /\ Readers = {})

C8_Witness ==
  /\ ~alive /\ destroyed = 1 /\ nSendOk = 1 /\ nRecvOk = 0
  /\ message = sentVal /\ nRecvPanic = 1

\* C9: end-to-end scenario under fair scheduling of both threads: thread A's
\* polling loop exits, the receive() it then calls never panics and returns
\* the value thread B sent ("hello" when B sent "hello"), and thread A's
\* next is_ready() returns false.
C9_EndToEnd ==
  /\ <>(client = "done")
  /\ [](client # "panicked")
  /\ [](client = "receive" => Returned(ThreadA, "is_ready") /\ ret[ThreadA].val = "true")
  /\ []((client = "probe" /\ pc[ThreadA] = "idle") =>
          /\ Returned(ThreadA, "receive")
          /\ ret[ThreadA].val = sentVal
          /\ Returned(ThreadB, "send"))
  /\ [](client = "done" =>
          Returned(ThreadA, "is_ready") /\ ret[ThreadA].val = "false")

C9_Witness ==
  /\ client = "done" /\ sentVal = "hello" /\ polls >= 3
  /\ nRecvOk = 1 /\ nRecvPanic = 0
  /\ Returned(ThreadA, "is_ready") /\ ret[ThreadA].val = "false"

\* C10: no call ever waits: the first atomic step of send, receive and
\* is_ready can be taken in every state of a live channel, a thread inside a
\* call can always take its next step whatever the other threads do, and a
\* call ends within three atomic steps of its thread.
C10_NeverBlocks ==
  \A t \in Threads :
    /\ steps[t] <= 3
    /\ (pc[t] = "send_write" => steps[t] = 1)
    /\ (pc[t] = "send_store" => steps[t] = 2)
    /\ (pc[t] = "receive_read" => steps[t] = 1)
    /\ (pc[t] # "idle" => ENABLED Inside(t))
    /\ (CanCall(t) =>
          /\ ENABLED is_ready(t)
          /\ ENABLED receive_compare_exchange(t)
          /\ \A v \in Values : ENABLED send_compare_exchange(t, v))

C10_Witness ==
  \E t, u, w \in Threads :
    /\ pc[t] = "send_write"
    /\ Panicked(u, "receive") /\ ret[u].tag = WRITING /\ steps[u] = 1
    /\ Panicked(w, "send") /\ ret[w].tag = WRITING /\ steps[w] = 1

\* C13: under any calls, the tag is one of the four tags and only ever
\* moves EMPTY -> WRITING -> READY -> READING, one step at a time: never
\* backwards, never skipping a phase, never back to EMPTY.
C13_TagOrder ==
  /\ [](state \in {EMPTY, WRITING, READY, READING})
  /\ [][\/ state' = state
        \/ state = EMPTY /\ state' = WRITING
        \/ state = WRITING /\ state' = READY
        \/ state = READY /\ state' = READING]_vars

C13_Witness ==
  /\ state = READING /\ nSendPanic >= 1 /\ nRecvPanic >= 1
  /\ \E t \in Threads : Returned(t, "receive")

\* the slot holds a value that was written and neither claimed by a receive
\* nor destroyed
SlotLive ==
  message # Uninit /\ nRecvOk = 0 /\ Readers = {} /\ destroyed = 0

\* C14: the slot holds a live, initialised value exactly in WRITING once
\* the write is done and in READY; it is uninitialised in EMPTY and in
\* WRITING before the write; in READING the value belongs to the receive
\* caller.  The slot is never read uninitialised nor written while live.
C14_SlotLive ==
  /\ [](alive =>
          (SlotLive <=> \/ state = WRITING /\ \E t \in Threads : pc[t] = "send_store"
                        \/ state = READY))
  /\ []((message = Uninit) <=>
          \/ state = EMPTY
          \/ state = WRITING /\ \E t \in Threads : pc[t] = "send_write")
  /\ [](state = READING => Cardinality(Readers) + nRecvOk = 1)
  /\ [][\A t \in Threads :
          /\ (receive_read(t) => message # Uninit /\ sees[t])
          /\ (send_write(t) => message = Uninit /\ ~SlotLive)]_vars

C14_Witness ==
  /\ state = READING /\ message = "hello" /\ ~SlotLive
  /\ nRecvOk = 1 /\ alive

\* C15: slot accesses exclude one another: at most one thread is between a
\* compare-and-swap it won and the end of its call, a thread writes the slot
\* only as the winner of EMPTY -> WRITING and reads it only as the winner of
\* READY -> READING.
C15_SlotExclusive ==
  /\ Cardinality(Senders \cup Readers) <= 1
  /\ \A t \in Threads :
        /\ (pc[t] = "send_write" =>
              state = WRITING /\ steps[t] = 1 /\ arg[t] = sentVal)
        /\ (pc[t] = "send_store" => state = WRITING /\ steps[t] = 2)
        /\ (pc[t] = "receive_read" => state = READING /\ steps[t] = 1)

C15_Witness ==
  \E t, u, w \in Threads :
    /\ pc[t] = "receive_read"
    /\ Panicked(u, "receive") /\ ret[u].tag = READING
    /\ Panicked(w, "send") /\ ret[w].tag = WRITING

\* C16: a send that finds the tag other than EMPTY, and a receive that
\* finds it other than READY, panics and changes neither the tag nor the
\* slot, whether the conflicting call has returned or is in progress.
C16_FailedCallNoEffect ==
  [][\A t \in Threads :
       /\ (CallsSend(t) /\ state # EMPTY) =>
             /\ ret'[t].op = "send" /\ ret'[t].out = "panic"
             /\ UNCHANGED <<state, message, published, sees, alive>>
             /\ \A u \in Threads \ {t} : pc'[u] = pc[u] /\ arg'[u] = arg[u]
       /\ (CallsReceive(t) /\ state # READY) =>
             /\ ret'[t].op = "receive" /\ ret'[t].out = "panic"
             /\ UNCHANGED <<state, message, published, sees, alive>>
             /\ \A u \in Threads \ {t} : pc'[u] = pc[u] /\ arg'[u] = arg[u]]_vars

C16_Witness ==
  \E t, u, w \in Threads :
    /\ pc[w] = "send_store"
    /\ Panicked(t, "send") /\ ret[t].tag = WRITING
    /\ Panicked(u, "receive") /\ ret[u].tag = WRITING
    /\ state = WRITING /\ message = sentVal

\* C17: is_ready() never fails and has no effect: it can be called in every
\* state of a live channel, leaves tag and slot unchanged and returns true
\* exactly when the tag is READY.
C17_IsReadyPure ==
  /\ [](\A t \in Threads : CanCall(t) => ENABLED is_ready(t))
  /\ [][\A t \in Threads :
          CallsIsReady(t) =>
            /\ UNCHANGED <<state, message, published, sees, alive, pc, arg>>
            /\ UNCHANGED <<sentVal, nSendOk, nSendPanic, nRecvOk, nRecvPanic,
                           destroyed>>
            /\ ret'[t].op = "is_ready" /\ ret'[t].out = "ok"
            /\ (ret'[t].val = "true" <=> state = READY)
            /\ (ret'[t].val = "false" <=> state \in {EMPTY, WRITING, READING})]_vars

C17_Witness ==
  \E t, u \in Threads :
    /\ Returned(t, "is_ready") /\ ret[t].val = "false" /\ ret[t].tag = WRITING
    /\ Returned(u, "is_ready") /\ ret[u].val = "true" /\ ret[u].tag = READY
    /\ state = READY /\ message = sentVal /\ nSendOk = 1

\* C20: WRITING is held only while a send is in progress: when no send is
\* executing the tag is EMPTY, READY or READING, so the destructor, which
\* runs when no call is executing, never finds WRITING.
C20_WritingTransient ==
  /\ [](state = WRITING <=> Senders # {})
  /\ [](~alive => state \in {EMPTY, READY, READING})
  /\ [][drop => state \in {EMPTY, READY, READING}]_vars

C20_Witness ==
  /\ ~alive /\ state = READING /\ nSendOk = 1 /\ nSendPanic = 1

\* ------------------------------------- claims on the two-flag Channel
TfSenders == {t \in Threads : tf_pc[t] \in {"send_write", "send_store"}}
TfPanicked(t, op) == tf_ret[t].op = op /\ tf_ret[t].out = "panic"
Outcome(r) == <<r.op, r.out, r.val>>

\* C18: in the two-flag Channel, over any interleaving of send calls only one
\* swap of in_use returns false, and only that send accesses the slot: at
\* most one send writes the slot and sets ready, every other send panics.
C18_SingleSwap ==
  /\ tf_count.swapFalse <= 1
  /\ tf_count.writes <= tf_count.swapFalse
  /\ tf_count.sendOk <= tf_count.writes
  /\ Cardinality(TfSenders) + tf_count.sendOk = tf_count.swapFalse
  /\ Cardinality({t \in Threads : tf_pc[t] = "send_store"}) + tf_count.sendOk
       = tf_count.writes
  /\ tf_count.sends = tf_count.swapFalse + tf_count.sendPanic
  /\ (tf_count.swapFalse = 0 <=> ~in_use)
  /\ (tf_count.writes = 0 => tf_message = Uninit)
  /\ (ready => tf_count.sendOk = 1)

C18_Witness ==
  \E t, u, w \in Threads :
    /\ t # u /\ u # w /\ t # w
    /\ tf_pc[t] = "send_store"
    /\ TfPanicked(u, "send") /\ TfPanicked(w, "send")
    /\ tf_count.sends = 3 /\ tf_count.sendPanic = 2
    /\ tf_count.writes = 1 /\ tf_count.swapFalse = 1
    /\ tf_message \in Values /\ ~ready

\* C19: run side by side on the same interleaving of send, receive, is_ready
\* and drop steps, the two-flag and the four-state Channel give every call
\* the same outcome (success, returned value, panic, value destroyed); their
\* states are related by EMPTY = (in_use false, ready false), WRITING or
\* READING = (in_use true, ready false), READY = (in_use true, ready true);
\* (in_use false, ready true) is never reached.
C19_Equivalent ==
  /\ \A t \in Threads :
       /\ Outcome(tf_ret[t]) = Outcome(ret[t])
       /\ tf_pc[t] = pc[t]
       /\ tf_arg[t] = arg[t]
  /\ tf_alive = alive
  /\ tf_message = message
  /\ tf_count.destroyed = destroyed
  /\ tf_count.sendOk = nSendOk /\ tf_count.sendPanic = nSendPanic
  /\ tf_count.recvOk = nRecvOk /\ tf_count.recvPanic = nRecvPanic
  /\ (state = EMPTY <=> (~in_use /\ ~ready))
  /\ (state \in {WRITING, READING} <=> (in_use /\ ~ready))
  /\ (state = READY <=> (in_use /\ ready))
  /\ ~(~in_use /\ ready)

C19_Witness ==
  \E t, u, w \in Threads :
    /\ Returned(t, "send") /\ Outcome(tf_ret[t]) = Outcome(ret[t])
    /\ Returned(u, "receive") /\ ret[u].val = sentVal
    /\ Outcome(tf_ret[u]) = Outcome(ret[u])
    /\ Panicked(w, "send") /\ TfPanicked(w, "send")
    /\ ~alive /\ ~tf_alive
    /\ state = READING /\ in_use /\ ~ready
    /\ destroyed = 0 /\ tf_count.destroyed = 0

\* ------------------------------------------------- claims on BasicChannel
InSend(t) == bpc[t] \in {"send_lock", "send_push", "send_notify"}
InRecv(t) == bpc[t] \in {"recv_lock", "recv_pop", "recv_wait"}
NoDuplicates(q) == \A i, j \in 1..Len(q) : i # j => q[i] # q[j]

\* C11: BasicChannel is FIFO and unbounded: the messages received so far,
\* followed by those still queued, are the messages in the order push_back
\* appended them; no message is returned twice or dropped; a send that
\* holds the mutex can always push, and every send call pushes its message.
C11_Fifo ==
  /\ pushed = recvd \o queue
  /\ NoDuplicates(pushed)
  /\ NoDuplicates(recvd)
  /\ nSends = Len(pushed)
               + Cardinality({t \in Threads : bpc[t] \in {"send_lock", "send_push"}})
  /\ \A t \in Threads :
        /\ (bpc[t] = "send_push" => mutex = t /\ ENABLED bc_send_push(t))
        /\ (bpc[t] = "send_notify" => ENABLED bc_send_notify(t))

C11_Witness ==
  \E t, u \in Threads :
    /\ t # u
    /\ pushed = <<2, 1>> /\ recvd = <<2, 1>>
    /\ bret[t] = 2 /\ bret[u] = 1

\* C12: receive returns only a message it popped, and under fair scheduling
\* no receive call waits forever while at least as many messages have been
\* pushed as receive calls were made, nor while the queue is non-empty.
C12_ReceiveWaits ==
  /\ [](\A t \in Threads :
          bret[t] # 0 => \E i \in 1..Len(recvd) : recvd[i] = bret[t])
  /\ [](Len(recvd) <= Len(pushed) /\ Len(recvd) <= nRecvs)
  /\ \A t \in Threads : []<>(~InRecv(t) \/ Len(pushed) < nRecvs)
  /\ \A t \in Threads : []<>(~InRecv(t) \/ queue = <<>>)

\* a receiver is blocked in wait, a message is queued and its sender is
\* about to notify, after an earlier receive has already returned
C12_Witness ==
  \E t, u \in Threads :
    /\ bpc[t] = "recv_wait" /\ t \in waiting
    /\ bpc[u] = "send_notify" /\ queue # <<>>
    /\ Len(recvd) = 1 /\ nRecvs = 2
====
